---- MODULE Spec2Model ----
(***************************************************************************)
(* Arty's collection store (api/Collection.py): a managed directory of     *)
(* image files, its ".collection" sidecar, and the Collection object the   *)
(* application holds in memory.                                            *)
(*                                                                         *)
(* File names and paths are sequences of one-character strings, so that    *)
(* str.lower, str.endswith, str.startswith and ntpath.basename are         *)
(* computed character by character, as the code computes them.             *)
(* Python's None is the empty tuple and a set value v is <<v>>.            *)
(*                                                                         *)
(* Three specifications share the variables.  Spec: the calls of the       *)
(* store (load, save, set_collection, add_image), the process dying inside *)
(* a write, and the user changing the directory.  SpecReference:           *)
(* CollectionImage.to_reference applied to one image.  SpecApp: the        *)
(* handlers of the application shell (ArtyApp.py, CollectionToolbar.py).   *)
(***************************************************************************)
EXTENDS Integers, Sequences, FiniteSets, TLC

VARIABLES
    files,               \* names of the entries of the managed directory, the sidecar excepted
    meta,                \* content of the sidecar file of the managed directory
    CURRENT_COLLECTION,  \* the Collection object the application holds: None or <<Collection>>
    PROJECT_DIRECTORY,   \* ArtyApp.PROJECT_DIRECTORY: the path the application last asked to load
    current,             \* SCREEN_MANAGER.current: the name of the screen on display
    outcome              \* what the last call did: its name, how it ended, the name it was about

vars == <<files, meta, CURRENT_COLLECTION, PROJECT_DIRECTORY, current, outcome>>

\* what the application shell keeps besides its Collection
shell == <<PROJECT_DIRECTORY, current>>

None == << >>

Some(v) == <<v>>

(***************************************************************************)
(* Bounds of the model.                                                    *)
(***************************************************************************)
\* add_image is not called on a list that already holds MaxImages images
MaxImages == 3

\* set_collection is given lists of at most MaxListLen images
MaxListLen == 2

(***************************************************************************)
(* Strings.                                                                *)
(***************************************************************************)
UpperCase == <<"A", "B", "C", "D", "E", "F", "G", "H", "I", "J", "K", "L", "M",
               "N", "O", "P", "Q", "R", "S", "T", "U", "V", "W", "X", "Y", "Z">>

LowerCase == <<"a", "b", "c", "d", "e", "f", "g", "h", "i", "j", "k", "l", "m",
               "n", "o", "p", "q", "r", "s", "t", "u", "v", "w", "x", "y", "z">>

\* the lower-case letter of each upper-case letter
ToLower ==
    [c \in {UpperCase[i] : i \in DOMAIN UpperCase} |->
        LowerCase[CHOOSE i \in DOMAIN UpperCase : UpperCase[i] = c]]

\* str.lower, one character
lower_char(c) == IF c \in DOMAIN ToLower THEN ToLower[c] ELSE c

\* str.lower
lower(s) == [i \in 1..Len(s) |-> lower_char(s[i])]

\* str.startswith(prefix)
startswith(s, prefix) ==
    /\ Len(s) >= Len(prefix)
    /\ SubSeq(s, 1, Len(prefix)) = prefix

\* str.endswith(suffix)
endswith(s, suffix) ==
    /\ Len(s) >= Len(suffix)
    /\ SubSeq(s, Len(s) - Len(suffix) + 1, Len(s)) = suffix

\* CollectionManager.AUTHORIZED_IMAGE_FORMATS
AUTHORIZED_IMAGE_FORMATS ==
    { <<".", "j", "p", "g">>, <<".", "j", "p", "e", "g">>, <<".", "p", "n", "g">>,
      <<".", "w", "e", "b", "p">>, <<".", "t", "i", "f", "f">> }

\* CollectionManager.META_FILENAME
META_FILENAME == <<".", "c", "o", "l", "l", "e", "c", "t", "i", "o", "n">>

\* filename.lower().endswith(CollectionManager.AUTHORIZED_IMAGE_FORMATS) without
\* the call of lower(): the extension compared as written
has_authorized_format_case_sensitive(file_name) ==
    \E ext \in AUTHORIZED_IMAGE_FORMATS : endswith(file_name, ext)

\* filename.lower().endswith(CollectionManager.AUTHORIZED_IMAGE_FORMATS)
lower_endswith_authorized(file_name) ==
    \E lowered \in {lower(file_name)} :
        \E ext \in AUTHORIZED_IMAGE_FORMATS : endswith(lowered, ext)

(***************************************************************************)
(* The file system the model covers: one managed directory, a path where   *)
(* no directory exists, and the files add_image may be given.              *)
(***************************************************************************)
Slash == <<"/">>

\* "/coll", the managed directory
CollDir == <<"/", "c", "o", "l", "l">>

\* "/gone", a path at which nothing exists
MissingDir == <<"/", "g", "o", "n", "e">>

Paths == {CollDir, MissingDir}

TmpDir == <<"/", "t", "m", "p">>

A_PNG == <<"a", ".", "p", "n", "g">>

B_JPG == <<"b", ".", "J", "P", "G">>

N_TXT == <<"n", ".", "t", "x", "t">>

DOC_PDF == <<"d", "o", "c", ".", "p", "d", "f">>

\* "d.jpg": the name of a sub-directory of the managed directory
D_JPG == <<"d", ".", "j", "p", "g">>

\* the names an entry of the managed directory may have
EntryNames == {A_PNG, B_JPG, N_TXT, D_JPG}

\* the entries that are sub-directories, not regular files
SubDirNames == {D_JPG}

\* os.path.isfile of an entry of the managed directory
isfile(name) == name \notin SubDirNames

\* the names os.listdir may return that pass the extension test, computed once
AuthorizedListedNames ==
    {name \in EntryNames \cup {META_FILENAME} : lower_endswith_authorized(name)}

\* the extension test of __check_files and add_image: looked up for a name
\* os.listdir may return, computed for any other name
has_authorized_format(file_name) ==
    IF file_name \in EntryNames \cup {META_FILENAME}
    THEN file_name \in AuthorizedListedNames
    ELSE lower_endswith_authorized(file_name)

\* os.path.join(directory, name)
path_join(directory, name) == directory \o Slash \o name

\* "/tmp/a.png"
SrcTmpA == path_join(TmpDir, A_PNG)

\* "b'/tmp/a.png'": the text of a bytes path, as a file drop delivers it
SrcBytesTmpA == <<"b", "'">> \o SrcTmpA \o <<"'">>

\* "C:\pics\b.JPG"
SrcWinB == <<"C", ":", "\\", "p", "i", "c", "s", "\\">> \o B_JPG

\* "/tmp/doc.pdf"
SrcTmpDoc == path_join(TmpDir, DOC_PDF)

\* "/coll/a.png": a file of the managed directory itself
SrcCollA == path_join(CollDir, A_PNG)

\* "/tmp/b.JPG": no such file
SrcTmpB == path_join(TmpDir, B_JPG)

Sources == {SrcTmpA, SrcBytesTmpA, SrcWinB, SrcTmpDoc, SrcCollA, SrcTmpB}

\* the files outside the managed directory that exist
OutsideFiles == {SrcTmpA, SrcWinB, SrcTmpDoc}

(***************************************************************************)
(* CollectionImage and Collection.                                         *)
(***************************************************************************)
\* CollectionImage(filename, title, artist, ...)
Image(filename, title, artist, year, technique, conservation_site, production_site, dimensions) ==
    [filename |-> filename, title |-> title, artist |-> artist, year |-> year,
     technique |-> technique, conservation_site |-> conservation_site,
     production_site |-> production_site, dimensions |-> dimensions]

\* CollectionImage(filename): every optional field keeps its default, None
CollectionImage(filename) ==
    Image(filename, None, None, None, None, None, None, None)

\* an __eq__ that compares every field, as the dataclass would generate it
image_eq_all_fields(a, b) == a = b

\* CollectionImage.__eq__
image_eq(a, b) == a.filename = b.filename

\* x in list, with CollectionImage.__eq__
image_in(x, list) == \E i \in 1..Len(list) : image_eq(list[i], x)

\* Collection(work_directory, title, collection)
Collection(work_directory, title, collection) ==
    [work_directory |-> work_directory, title |-> title, collection |-> collection]

DEFAULT_TITLE == "Untitled Collection"

\* images with their metadata filled in, as the panel of the application edits them
MonetA ==
    Image(A_PNG, Some("Water Lilies"), Some("Monet"), Some("1919"),
          Some("Oil on canvas"), Some("MoMA"), None, Some("100x100cm"))

AnonymousB ==
    Image(B_JPG, Some("Kouros"), None, Some("c. 530 BC"), Some("Marble"),
          Some("Athens"), Some("Attica"), Some("194cm"))

ImagePool == {CollectionImage(A_PNG), CollectionImage(B_JPG), MonetA, AnonymousB}

\* the sequences of distinct elements of S
RECURSIVE Orders(_)
Orders(S) ==
    IF S = {} THEN {<< >>}
    ELSE UNION {{<<x>> \o rest : rest \in Orders(S \ {x})} : x \in S}

\* the lists set_collection is given: images of distinct files, in any order
ImageLists ==
    UNION {Orders(S) : S \in {T \in SUBSET ImagePool :
        /\ Cardinality(T) <= MaxListLen
        /\ \A a, b \in T : a # b => ~image_eq(a, b)}}

(***************************************************************************)
(* The sidecar file.                                                       *)
(***************************************************************************)
\* no sidecar in the directory
NoFile == [kind |-> "absent"]

\* a sidecar of zero bytes
EmptyFile == [kind |-> "empty"]

\* a sidecar holding the beginning of a JSON text
TruncatedFile == [kind |-> "truncated"]

\* CollectionImage.to_dict (dataclass_json)
to_dict(image) ==
    [filename |-> image.filename, title |-> image.title, artist |-> image.artist,
     year |-> image.year, technique |-> image.technique,
     conservation_site |-> image.conservation_site,
     production_site |-> image.production_site, dimensions |-> image.dimensions]

\* CollectionImage.from_dict that reads the filename only
from_dict_filename_only(item) == CollectionImage(item.filename)

\* CollectionImage.from_dict (dataclass_json)
from_dict(item) ==
    Image(item.filename, item.title, item.artist, item.year, item.technique,
          item.conservation_site, item.production_site, item.dimensions)

\* Collection.to_json, json.loads, json.dumps(indent=4): the JSON document written
to_json(collection) ==
    [kind |-> "json",
     work_directory |-> collection.work_directory,
     title |-> collection.title,
     collection |-> [i \in 1..Len(collection.collection) |->
                        to_dict(collection.collection[i])]]

\* json.loads(coll_json) succeeds
json_loads_ok(content) == content.kind = "json"

\* coll_dict["title"] and coll_dict["collection"] find their keys
has_required_keys(content) ==
    "title" \in DOMAIN content /\ "collection" \in DOMAIN content

\* CollectionManager.__load_meta, once json.loads has succeeded
load_meta(path, content) ==
    Collection(path, content["title"],
               [i \in 1..Len(content.collection) |-> from_dict(content.collection[i])])

\* CollectionManager.__write_meta: the content of the sidecar once it has returned
write_meta(collection) == to_json(collection)

\* the sidecar of a process that died inside __write_meta: open(path, "w") has
\* truncated it, and nothing, a part or all of the text has reached the disk
interrupted_write(collection) ==
    {EmptyFile, TruncatedFile, write_meta(collection)}

(***************************************************************************)
(* The directory.                                                          *)
(***************************************************************************)
path_exists(path) == path = CollDir

\* os.listdir(path), as a set, for a directory holding entries and content
listdir(entries, content) ==
    entries \cup (IF content = NoFile THEN {} ELSE {META_FILENAME})

\* __check_files that forgets what the directory no longer holds
check_files_pruning(collection, listing) ==
    LET kept == SelectSeq(collection.collection,
                          LAMBDA image :
                              \E i \in 1..Len(listing) : listing[i] = image.filename)
        RECURSIVE scan(_, _)
        scan(images, rest) ==
            IF rest = << >> THEN images
            ELSE LET new_image == CollectionImage(Head(rest))
                 IN  scan(IF /\ has_authorized_format(Head(rest))
                             /\ ~image_in(new_image, images)
                          THEN Append(images, new_image)
                          ELSE images,
                          Tail(rest))
    IN  [collection EXCEPT !.collection = scan(kept, listing)]

\* __check_files that appends every authorized file it lists
RECURSIVE check_files_no_dedup(_, _)
check_files_no_dedup(collection, listing) ==
    IF listing = << >> THEN collection
    ELSE check_files_no_dedup(
             IF has_authorized_format(Head(listing))
             THEN [collection EXCEPT
                      !.collection = Append(@, CollectionImage(Head(listing)))]
             ELSE collection,
             Tail(listing))

\* __check_files that registers the lowercased name of the file
RECURSIVE check_files_lowercased(_, _)
check_files_lowercased(collection, listing) ==
    IF listing = << >> THEN collection
    ELSE LET filename == Head(listing)
             new_image == CollectionImage(lower(filename))
         IN  check_files_lowercased(
                 IF /\ has_authorized_format(filename)
                    /\ ~image_in(new_image, collection.collection)
                 THEN [collection EXCEPT !.collection = Append(@, new_image)]
                 ELSE collection,
                 Tail(listing))

\* CollectionManager.__check_files, os.listdir enumerating the directory as listing
RECURSIVE check_files(_, _)
check_files(collection, listing) ==
    IF listing = << >> THEN collection
    ELSE LET filename == Head(listing)
             new_image == CollectionImage(filename)
         IN  check_files(
                 IF /\ has_authorized_format(filename)
                    /\ ~image_in(new_image, collection.collection)
                 THEN [collection EXCEPT !.collection = Append(@, new_image)]
                 ELSE collection,
                 Tail(listing))

Outcome(op, status, name) == [op |-> op, status |-> status, name |-> name]

(***************************************************************************)
(* CollectionManager.load and save.                                        *)
(***************************************************************************)
\* CollectionManager.__create_meta: open(path, "a").close()
create_meta(content) == IF content = NoFile THEN EmptyFile ELSE content

\* the orders in which os.listdir may enumerate the directory at line 144,
\* where the sidecar exists
load_listings(entries) == Orders(entries \cup {META_FILENAME})

Raised(status, content) ==
    [status |-> status, collection |-> None, meta |-> content]

\* CollectionManager.load that creates the sidecar before it looks at the directory
load_result_create_first(path, entries, content, listing) ==
    IF ~path_exists(path)
    THEN Raised("FileNotFoundError", content)
    ELSE IF listdir(entries, content) = {}
    THEN Raised("FileNotFoundError", create_meta(content))
    ELSE IF ~json_loads_ok(create_meta(content)) /\ content # NoFile
    THEN Raised("JSONDecodeError", content)
    ELSE IF content # NoFile /\ ~has_required_keys(content)
    THEN Raised("KeyError", content)
    ELSE LET loaded == IF content # NoFile
                       THEN load_meta(path, content)
                       ELSE Collection(path, DEFAULT_TITLE, << >>)
             collection == check_files(loaded, listing)
         IN  [status |-> "ok", collection |-> Some(collection),
              meta |-> write_meta(collection)]

\* CollectionManager.load that starts from the default Collection when the
\* sidecar cannot be read
load_result_default_on_bad_sidecar(path, entries, content, listing) ==
    IF ~path_exists(path) \/ listdir(entries, content) = {}
    THEN Raised("FileNotFoundError", content)
    ELSE LET loaded == IF /\ json_loads_ok(content)
                          /\ has_required_keys(content)
                       THEN load_meta(path, content)
                       ELSE Collection(path, DEFAULT_TITLE, << >>)
             collection == check_files(loaded, listing)
         IN  [status |-> "ok", collection |-> Some(collection),
              meta |-> write_meta(collection)]

\* CollectionManager.load(path) run to its end in a directory holding entries
\* and the sidecar content: how it ends, the Collection returned, the sidecar left
load_result(path, entries, content, listing) ==
    IF ~path_exists(path)
    THEN \* os.listdir(path) raises
         Raised("FileNotFoundError", content)
    ELSE IF listdir(entries, content) = {}
    THEN Raised("FileNotFoundError", content)
    ELSE IF META_FILENAME \in listdir(entries, content) /\ ~json_loads_ok(content)
    THEN \* json.loads raises in __load_meta
         Raised("JSONDecodeError", content)
    ELSE IF META_FILENAME \in listdir(entries, content) /\ ~has_required_keys(content)
    THEN \* coll_dict["title"] or coll_dict["collection"] raises in __load_meta
         Raised("KeyError", content)
    ELSE LET loaded == IF META_FILENAME \in listdir(entries, content)
                       THEN load_meta(path, content)
                       ELSE Collection(path, DEFAULT_TITLE, << >>)
             collection == check_files(loaded, listing)
         IN  [status |-> "ok", collection |-> Some(collection),
              meta |-> write_meta(collection)]

\* the application loads the collection at path and keeps what load returns
load(path) ==
    \E r \in {load_result(path, files, meta, listing) :
                 listing \in load_listings(files)} :
            /\ meta' = r.meta
            /\ CURRENT_COLLECTION' =
                   IF r.status = "ok" THEN r.collection ELSE CURRENT_COLLECTION
            /\ outcome' = Outcome("load", r.status, path)
            /\ UNCHANGED files
            /\ UNCHANGED shell

\* CollectionManager.save(collection) on the application's collection
save ==
    /\ CURRENT_COLLECTION # None
    /\ meta' = write_meta(CURRENT_COLLECTION[1])
    /\ outcome' = Outcome("save", "ok", << >>)
    /\ UNCHANGED <<files, CURRENT_COLLECTION>>
    /\ UNCHANGED shell

(***************************************************************************)
(* Collection.set_collection and Collection.add_image.                     *)
(***************************************************************************)
\* set_collection that does not save
set_collection_no_save(coll_list) ==
    /\ CURRENT_COLLECTION # None
    /\ CURRENT_COLLECTION' =
           Some([CURRENT_COLLECTION[1] EXCEPT !.collection = coll_list])
    /\ outcome' = Outcome("set_collection", "ok", << >>)
    /\ UNCHANGED <<files, meta>>
    /\ UNCHANGED shell

\* Collection.set_collection(coll_list)
set_collection(coll_list) ==
    /\ CURRENT_COLLECTION # None
    /\ LET collection == [CURRENT_COLLECTION[1] EXCEPT !.collection = coll_list]
       IN  /\ CURRENT_COLLECTION' = Some(collection)
           /\ meta' = write_meta(collection)
    /\ outcome' = Outcome("set_collection", "ok", << >>)
    /\ UNCHANGED files
    /\ UNCHANGED shell

\* add_image, lines 244-246: the text of a bytes path loses its b' and its '
clean_source(source) ==
    IF startswith(source, <<"b", "'">>) /\ endswith(source, <<"'">>)
    THEN SubSeq(source, 3, Len(source) - 1)
    ELSE source

\* ntpath.basename: what follows the drive and the last "/" or "\"
basename(p) ==
    LET rest == IF Len(p) >= 2 /\ p[2] = ":" THEN SubSeq(p, 3, Len(p)) ELSE p
        seps == {i \in 1..Len(rest) : rest[i] \in {"/", "\\"}}
        last == IF seps = {} THEN 0 ELSE CHOOSE i \in seps : \A j \in seps : j <= i
    IN  SubSeq(rest, last + 1, Len(rest))

\* the file at path exists, in a world whose managed directory holds entries
file_exists(path, entries) ==
    \/ path \in OutsideFiles
    \/ \E name \in entries : path = path_join(CollDir, name)

\* shutil.copyfile(source, destination): how it ends
copyfile_status(source, destination, entries) ==
    IF source = destination /\ file_exists(source, entries)
    THEN "SameFileError"
    ELSE IF ~file_exists(source, entries)
    THEN "FileNotFoundError"
    ELSE "ok"

\* Collection.add_image that copies the file before it looks at its extension
add_image_result_copy_first(collection, source, entries) ==
    LET cleaned == clean_source(source)
        file_name == basename(cleaned)
        copied == copyfile_status(cleaned,
                                  path_join(collection.work_directory, file_name),
                                  entries)
        landed == IF copied = "ok" THEN entries \cup {file_name} ELSE entries
    IN  IF copied # "ok"
        THEN [status |-> copied, file_name |-> file_name,
              collection |-> collection, files |-> entries]
        ELSE IF ~has_authorized_format(file_name)
        THEN [status |-> "ValueError", file_name |-> file_name,
              collection |-> collection, files |-> landed]
        ELSE [status |-> "ok", file_name |-> file_name,
              collection |-> [collection EXCEPT
                  !.collection = Append(@, CollectionImage(file_name))],
              files |-> landed]

\* Collection.add_image that appends the image before it copies the file
add_image_result_append_first(collection, source, entries) ==
    LET cleaned == clean_source(source)
        file_name == basename(cleaned)
        copied == copyfile_status(cleaned,
                                  path_join(collection.work_directory, file_name),
                                  entries)
        appended == [collection EXCEPT
                        !.collection = Append(@, CollectionImage(file_name))]
    IN  IF ~has_authorized_format(file_name)
        THEN [status |-> "ValueError", file_name |-> file_name,
              collection |-> collection, files |-> entries]
        ELSE IF copied # "ok"
        THEN [status |-> copied, file_name |-> file_name,
              collection |-> appended, files |-> entries]
        ELSE [status |-> "ok", file_name |-> file_name,
              collection |-> appended, files |-> entries \cup {file_name}]

\* Collection.add_image(source) run to its end on collection, in a directory
\* holding entries: how it ends, the file name, the list, the directory
add_image_result(collection, source, entries) ==
    LET cleaned == clean_source(source)
        file_name == basename(cleaned)
        copied == copyfile_status(cleaned,
                                  path_join(collection.work_directory, file_name),
                                  entries)
        unchanged(status) ==
            [status |-> status, file_name |-> file_name,
             collection |-> collection, files |-> entries]
    IN  IF ~has_authorized_format(file_name)
        THEN unchanged("ValueError")
        ELSE IF copied # "ok"
        THEN unchanged(copied)
        ELSE [status |-> "ok", file_name |-> file_name,
              collection |-> [collection EXCEPT
                  !.collection = Append(@, CollectionImage(file_name))],
              files |-> entries \cup {file_name}]

\* the application adds the file at source to its collection
add_image(source) ==
    /\ CURRENT_COLLECTION # None
    /\ Len(CURRENT_COLLECTION[1].collection) < MaxImages
    /\ \E r \in {add_image_result(CURRENT_COLLECTION[1], source, files)} :
           /\ files' = r.files
           /\ CURRENT_COLLECTION' = Some(r.collection)
           /\ meta' = IF r.status = "ok" THEN write_meta(r.collection) ELSE meta
           /\ outcome' = Outcome("add_image", r.status, r.file_name)
    /\ UNCHANGED shell

\* add_image whose shutil.copyfile raises OSError after it has opened the
\* destination (the disk fills up): the exception leaves add_image at line
\* 260, a partial file stays in the directory
add_image_copy_interrupted(source) ==
    /\ CURRENT_COLLECTION # None
    /\ \E r \in {add_image_result(CURRENT_COLLECTION[1], source, files)} :
           /\ r.status = "ok"
           /\ files' = r.files
           /\ outcome' = Outcome("add_image", "OSError", r.file_name)
    /\ UNCHANGED <<meta, CURRENT_COLLECTION>>
    /\ UNCHANGED shell

(***************************************************************************)
(* The process dies inside __write_meta: what it held in memory is lost,   *)
(* what it did to the directory before the write stays.                    *)
(***************************************************************************)
dies_writing(op, name, collection, entries) ==
    /\ meta' \in interrupted_write(collection)
    /\ files' = entries
    /\ CURRENT_COLLECTION' = None
    /\ outcome' = Outcome(op, "crashed", name)
    /\ UNCHANGED shell

load_crash(path) ==
    \E r \in {load_result(path, files, meta, listing) :
                 listing \in load_listings(files)} :
            /\ r.status = "ok"
            /\ dies_writing("load", path, r.collection[1], files)

save_crash ==
    /\ CURRENT_COLLECTION # None
    /\ dies_writing("save", << >>, CURRENT_COLLECTION[1], files)

set_collection_crash(coll_list) ==
    /\ CURRENT_COLLECTION # None
    /\ dies_writing("set_collection", << >>,
                    [CURRENT_COLLECTION[1] EXCEPT !.collection = coll_list], files)

add_image_crash(source) ==
    /\ CURRENT_COLLECTION # None
    /\ Len(CURRENT_COLLECTION[1].collection) < MaxImages
    /\ \E r \in {add_image_result(CURRENT_COLLECTION[1], source, files)} :
           /\ r.status = "ok"
           /\ dies_writing("add_image", r.file_name, r.collection, r.files)

(***************************************************************************)
(* The user changes the managed directory outside the application.         *)
(***************************************************************************)
external_create(name) ==
    /\ name \notin files
    /\ files' = files \cup {name}
    /\ outcome' = Outcome("external", "ok", name)
    /\ UNCHANGED <<meta, CURRENT_COLLECTION>>
    /\ UNCHANGED shell

external_delete(name) ==
    /\ name \in files
    /\ files' = files \ {name}
    /\ outcome' = Outcome("external", "ok", name)
    /\ UNCHANGED <<meta, CURRENT_COLLECTION>>
    /\ UNCHANGED shell

(***************************************************************************)
(* The specification.                                                      *)
(***************************************************************************)
\* a sidecar edited by hand: a JSON object without its "title"
SidecarWithoutTitle ==
    [kind |-> "json", work_directory |-> CollDir, collection |-> <<to_dict(MonetA)>>]

\* a sidecar edited by hand: a JSON object without its "collection"
SidecarWithoutList ==
    [kind |-> "json", work_directory |-> CollDir, title |-> "Impressionism"]

\* the sidecars a directory may hold when the application starts: none, the
\* one an earlier session saved, or one edited by hand since
InitialSidecars ==
    {NoFile, write_meta(Collection(CollDir, "Impressionism", <<MonetA>>)),
     SidecarWithoutTitle, SidecarWithoutList}

Init ==
    /\ files \in SUBSET EntryNames
    /\ meta \in InitialSidecars
    /\ CURRENT_COLLECTION = None
    /\ PROJECT_DIRECTORY = << >>
    /\ current = "Start"
    /\ outcome = Outcome("start", "ok", << >>)

Next ==
    \/ \E path \in Paths : load(path)
    \/ save
    \/ \E coll_list \in ImageLists : set_collection(coll_list)
    \/ \E source \in Sources : add_image(source)
    \/ \E source \in Sources : add_image_copy_interrupted(source)
    \/ \E path \in Paths : load_crash(path)
    \/ save_crash
    \/ \E coll_list \in ImageLists : set_collection_crash(coll_list)
    \/ \E source \in Sources : add_image_crash(source)
    \/ \E name \in EntryNames : external_create(name)
    \/ \E name \in EntryNames : external_delete(name)

Spec == Init /\ [][Next]_vars

(***************************************************************************)
(* CollectionImage.to_reference, applied to one image at a time.           *)
(***************************************************************************)
\* the value counts as true in `if self.artist`: not None and not ""
truthy(field) == field # None /\ field[1] # ""

\* CollectionImage.to_reference: how it ends, and the string it returns.
\* None + ", " raises TypeError; format() writes a None argument as "None".
to_reference(image) ==
    LET needed == <<image.title, image.year, image.technique, image.dimensions>>
                      \o (IF truthy(image.artist) THEN << >>
                                                  ELSE <<image.production_site>>)
        artist_if_artist ==
            IF truthy(image.artist) THEN image.artist[1] \o ", " ELSE ""
        production_site_if_no_artist ==
            IF ~truthy(image.artist) THEN image.production_site[1] \o ", " ELSE ""
        conservation_site ==
            IF image.conservation_site = None THEN "None"
                                              ELSE image.conservation_site[1]
    IN  IF \E i \in 1..Len(needed) : needed[i] = None
        THEN [status |-> "TypeError", text |-> None]
        ELSE [status |-> "ok",
              text |-> Some(artist_if_artist
                            \o (image.title[1] \o ", ")
                            \o production_site_if_no_artist
                            \o (image.year[1] \o ", ")
                            \o (image.technique[1] \o ", ")
                            \o (image.dimensions[1] \o ", ")
                            \o conservation_site)]

\* the images to_reference is applied to: every optional field unset or set,
\* the artist also set to the empty string
ReferenceImages ==
    {Image(A_PNG, title, artist, year, technique, conservation_site,
           production_site, dimensions) :
        title \in {None, Some("Water Lilies")},
        artist \in {None, Some(""), Some("Monet")},
        year \in {None, Some("1919")},
        technique \in {None, Some("Oil on canvas")},
        conservation_site \in {None, Some("MoMA")},
        production_site \in {None, Some("Giverny")},
        dimensions \in {None, Some("100x100cm")}}

\* a Collection of one image, nothing rendered yet
InitReference ==
    /\ files = {A_PNG}
    /\ meta = NoFile
    /\ \E image \in ReferenceImages :
           CURRENT_COLLECTION = Some(Collection(CollDir, DEFAULT_TITLE, <<image>>))
    /\ PROJECT_DIRECTORY = << >>
    /\ current = "Start"
    /\ outcome = Outcome("start", "ok", << >>)

\* the image of the Collection is rendered
render_reference ==
    /\ \E r \in {to_reference(CURRENT_COLLECTION[1].collection[1])} :
           outcome' = Outcome("to_reference", r.status, r.text)
    /\ UNCHANGED <<files, meta, CURRENT_COLLECTION>>
    /\ UNCHANGED shell

NextReference == render_reference

SpecReference == InitReference /\ [][NextReference]_vars

(***************************************************************************)
(* The application shell: the handlers of ArtyApp and of the toolbar of    *)
(* the Collection screen.  The grid, the panel and the Compare screen are  *)
(* widgets whose calls leave the four fields below as they are.            *)
(***************************************************************************)
\* how load_collection ends for what CollectionManager.load gave it: "caught"
\* when the except clause logs and returns, "IndexError" when
\* get_collection()[0] finds no image, else load's own exception, or "ok"
load_collection_status(r) ==
    IF r.status = "FileNotFoundError" THEN "caught"
    ELSE IF r.status # "ok" THEN r.status
    ELSE IF r.collection[1].collection = << >> THEN "IndexError"
    ELSE "ok"

\* a load_collection whose except clause does not return
load_collection_always_switches(path) ==
    \E r \in {load_result(path, files, meta, listing) :
                 listing \in load_listings(files)} :
            /\ PROJECT_DIRECTORY' = path
            /\ meta' = r.meta
            /\ CURRENT_COLLECTION' =
                   IF r.status = "ok" THEN r.collection ELSE CURRENT_COLLECTION
            /\ current' = IF load_collection_status(r) \in {"ok", "caught"}
                          THEN "Collection" ELSE current
            /\ outcome' = Outcome("load_collection", load_collection_status(r), path)
            /\ UNCHANGED files

\* ArtyApp.load_collection(path)
load_collection(path) ==
    \E r \in {load_result(path, files, meta, listing) :
                 listing \in load_listings(files)} :
            /\ PROJECT_DIRECTORY' = path
            /\ meta' = r.meta
            /\ CURRENT_COLLECTION' =
                   IF r.status = "ok" THEN r.collection ELSE CURRENT_COLLECTION
            /\ current' = IF load_collection_status(r) = "ok"
                          THEN "Collection" ELSE current
            /\ outcome' = Outcome("load_collection", load_collection_status(r), path)
            /\ UNCHANGED files

\* ArtyApp._on_file_drop(_window, file_path): "ignored" away from the
\* Collection screen, "caught" when add_image raised ValueError
_on_file_drop(source) ==
    /\ IF current # "Collection"
       THEN /\ outcome' = Outcome("_on_file_drop", "ignored", source)
            /\ UNCHANGED <<files, meta, CURRENT_COLLECTION>>
       ELSE IF CURRENT_COLLECTION = None
       THEN /\ outcome' = Outcome("_on_file_drop", "AttributeError", source)
            /\ UNCHANGED <<files, meta, CURRENT_COLLECTION>>
       ELSE /\ Len(CURRENT_COLLECTION[1].collection) < MaxImages
            /\ \E r \in {add_image_result(CURRENT_COLLECTION[1], source, files)} :
                   /\ files' = r.files
                   /\ CURRENT_COLLECTION' = Some(r.collection)
                   /\ meta' = IF r.status = "ok" THEN write_meta(r.collection)
                                                ELSE meta
                   /\ outcome' = Outcome("_on_file_drop",
                                         IF r.status = "ValueError" THEN "caught"
                                                                    ELSE r.status,
                                         r.file_name)
    /\ UNCHANGED shell

\* CollectionToolbar.save_coll: CollectionManager().save of the application's
\* Collection; __write_meta raises ValueError for None
save_coll ==
    /\ current = "Collection"
    /\ IF CURRENT_COLLECTION = None
       THEN /\ outcome' = Outcome("save_coll", "ValueError", << >>)
            /\ UNCHANGED meta
       ELSE /\ outcome' = Outcome("save_coll", "ok", << >>)
            /\ meta' = write_meta(CURRENT_COLLECTION[1])
    /\ UNCHANGED <<files, CURRENT_COLLECTION, shell>>

\* CollectionToolbar.to_home_screen: save, then the Start screen
to_home_screen ==
    /\ current = "Collection"
    /\ IF CURRENT_COLLECTION = None
       THEN /\ outcome' = Outcome("to_home_screen", "ValueError", << >>)
            /\ UNCHANGED <<meta, current>>
       ELSE /\ outcome' = Outcome("to_home_screen", "ok", << >>)
            /\ meta' = write_meta(CURRENT_COLLECTION[1])
            /\ current' = "Start"
    /\ UNCHANGED <<files, CURRENT_COLLECTION, PROJECT_DIRECTORY>>

\* CollectionToolbar.compare: the Compare screen when load_images took the
\* selection, a popup when it raised
compare ==
    /\ current = "Collection"
    /\ \E accepted \in BOOLEAN :
           /\ current' = IF accepted THEN "Compare" ELSE current
           /\ outcome' = Outcome("compare", IF accepted THEN "ok" ELSE "caught", << >>)
    /\ UNCHANGED <<files, meta, CURRENT_COLLECTION, PROJECT_DIRECTORY>>

NextApp ==
    \/ \E path \in Paths : load_collection(path)
    \/ \E source \in Sources : _on_file_drop(source)
    \/ save_coll
    \/ to_home_screen
    \/ compare
    \/ \E name \in EntryNames : external_create(name)
    \/ \E name \in EntryNames : external_delete(name)

SpecApp == Init /\ [][NextApp]_vars

(***************************************************************************)
(* What the claims speak of.                                               *)
(***************************************************************************)
\* the call named by outcome ran to its end and returned
returned(ops) == outcome.op \in ops /\ outcome.status = "ok"

\* the step is a call of op on name that returned
returns(op) == outcome'.op = op /\ outcome'.status = "ok"

Mutating == {"load", "add_image", "set_collection"}

filenames(list) == {list[i].filename : i \in 1..Len(list)}

no_two_equal_filenames(list) ==
    \A i, j \in 1..Len(list) : i # j => list[i].filename # list[j].filename

is_prefix(a, b) == Len(a) <= Len(b) /\ SubSeq(b, 1, Len(a)) = a

\* what the sidecar recorded: the images of a decodable sidecar, else nothing
recorded(content) ==
    IF json_loads_ok(content) /\ has_required_keys(content)
    THEN load_meta(CollDir, content).collection
    ELSE << >>

\* C1: after a completed load, add_image or set_collection, no two images of
\* the application's Collection have the same filename.
C1_NoTwoImagesWithEqualFilename ==
    (returned(Mutating) /\ CURRENT_COLLECTION # None)
        => no_two_equal_filenames(CURRENT_COLLECTION[1].collection)

\* C2: after a completed load, add_image or set_collection, decoding the
\* sidecar of the collection's work_directory gives the title and the image
\* list that the Collection in memory holds.
C2_SidecarDecodesToMemory ==
    returned(Mutating) =>
        /\ CURRENT_COLLECTION # None
        /\ json_loads_ok(meta)
        /\ LET decoded == load_meta(CURRENT_COLLECTION[1].work_directory, meta)
           IN  /\ decoded.title = CURRENT_COLLECTION[1].title
               /\ decoded.collection = CURRENT_COLLECTION[1].collection

\* C2 witness: add_image has returned on a list holding an image with its
\* metadata before the image added.
C2_Witness ==
    /\ returned({"add_image"})
    /\ Len(CURRENT_COLLECTION[1].collection) = 2
    /\ CURRENT_COLLECTION[1].collection[1] = AnonymousB
    /\ CURRENT_COLLECTION[1].collection[2] = CollectionImage(A_PNG)

\* C3: a process that dies inside a save leaves a sidecar that decodes, to the
\* Collection saved before or to the new one: the sidecar is the one it was or
\* a whole JSON document, never empty and never a part of one.
C3_CrashKeepsSidecarWhole ==
    [][outcome'.status = "crashed" => (meta' = meta \/ json_loads_ok(meta'))]_vars

\* C4: an add_image whose copy succeeds, for a base filename that an image of
\* the list already has, leaves the list as it was.
C4_DuplicateAddLeavesListAsItWas ==
    [][(/\ returns("add_image")
        /\ CURRENT_COLLECTION # None
        /\ outcome'.name \in filenames(CURRENT_COLLECTION[1].collection))
       => (/\ CURRENT_COLLECTION' # None
           /\ CURRENT_COLLECTION'[1].collection = CURRENT_COLLECTION[1].collection)]_vars

\* C5: the list a load returns begins with the images the sidecar recorded, in
\* their order and with every field as recorded, whether or not their files
\* are still in the directory.
C5_RecordedImagesAreAPrefix ==
    [][returns("load")
       => is_prefix(recorded(meta), CURRENT_COLLECTION'[1].collection)]_vars

\* C5 witness: a load has returned a list that begins with a recorded image,
\* metadata and all, whose file is gone, and ends with a file newly found.
C5_Witness ==
    /\ returned({"load"})
    /\ A_PNG \notin files
    /\ CURRENT_COLLECTION[1].collection = <<MonetA, CollectionImage(B_JPG)>>

\* C6, as claimed: when load has returned, every filename of the list names an
\* entry of the directory.
C6_EveryListedFileExists ==
    (returned({"load"}) /\ CURRENT_COLLECTION # None)
        => filenames(CURRENT_COLLECTION[1].collection) \subseteq files

\* C6, amended: when load has returned, every filename of the list that the
\* sidecar did not record before the load names an entry of the directory.
C6_EveryNewlyListedFileExists ==
    [][returns("load")
       => \A name \in filenames(CURRENT_COLLECTION'[1].collection) :
              name \in files' \/ name \in filenames(recorded(meta))]_vars

\* C6 witness: a load has returned a list in which one file is newly found and
\* in the directory, under its name as written, and a recorded one is gone.
C6_Witness ==
    /\ returned({"load"})
    /\ files = {B_JPG, N_TXT}
    /\ filenames(CURRENT_COLLECTION[1].collection) = {A_PNG, B_JPG}

\* C7: reconciling a reconciled list against the same directory changes
\* nothing, in whatever orders the directory is enumerated; and once load has
\* returned, a second load of the unchanged directory returns the same
\* Collection and leaves the same sidecar.
C7_ReconciliationIsIdempotent ==
    CURRENT_COLLECTION # None =>
        /\ \A once \in {check_files(CURRENT_COLLECTION[1], listing) :
                           listing \in load_listings(files)} :
               \A listing \in load_listings(files) :
                   check_files(once, listing) = once
        /\ returned({"load"}) =>
               \A again \in {load_result(outcome.name, files, meta, listing) :
                                listing \in load_listings(files)} :
                   /\ again.status = "ok"
                   /\ again.collection = CURRENT_COLLECTION
                   /\ again.meta = meta

\* C7 witness: a load has returned two files newly found, beside one that is
\* no image.
C7_Witness ==
    /\ returned({"load"})
    /\ files = {A_PNG, B_JPG, N_TXT}
    /\ CURRENT_COLLECTION[1].collection = <<CollectionImage(B_JPG), CollectionImage(A_PNG)>>

\* every authorized file of the directory is an image of the collection
knows_every_file(collection) ==
    \A name \in files :
        has_authorized_format(name) => name \in filenames(collection.collection)

\* C8: for a Collection that misses no authorized file of its directory, save
\* and then load return the same title and the same images, in the same order
\* and with the same value in every field.
C8_SaveThenLoadReturnsTheCollection ==
    (CURRENT_COLLECTION # None /\ knows_every_file(CURRENT_COLLECTION[1])) =>
        \A loaded \in {load_result(CURRENT_COLLECTION[1].work_directory, files,
                                   write_meta(CURRENT_COLLECTION[1]), listing) :
                          listing \in load_listings(files)} :
            /\ loaded.status = "ok"
            /\ loaded.collection[1].title = CURRENT_COLLECTION[1].title
            /\ loaded.collection[1].collection = CURRENT_COLLECTION[1].collection

\* C8 witness: a Collection with a title of its own and two images with their
\* metadata, the second before the first, has been saved.
C8_Witness ==
    /\ returned({"save"})
    /\ knows_every_file(CURRENT_COLLECTION[1])
    /\ files = {A_PNG, B_JPG}
    /\ CURRENT_COLLECTION[1].title = "Impressionism"
    /\ CURRENT_COLLECTION[1].collection = <<AnonymousB, MonetA>>

\* C9: load of a path that does not exist, or of a directory without any
\* entry, ends with FileNotFoundError, gives the application no Collection and
\* writes nothing: the directory and the sidecar are as they were.
C9_LoadOfMissingOrEmptyDirectoryFails ==
    [][(outcome'.op = "load"
        /\ (~path_exists(outcome'.name) \/ listdir(files, meta) = {}))
       => (/\ outcome'.status = "FileNotFoundError"
           /\ UNCHANGED <<files, meta, CURRENT_COLLECTION>>)]_vars

\* C9 witness: load of the managed directory, empty, has failed and the
\* directory is still empty.
C9_Witness ==
    /\ outcome = Outcome("load", "FileNotFoundError", CollDir)
    /\ listdir(files, meta) = {}

\* the name ends with an authorized extension, whatever the case of its letters
ends_with_image_extension(name) ==
    \E ext \in AUTHORIZED_IMAGE_FORMATS :
        /\ Len(name) >= Len(ext)
        /\ \A i \in 1..Len(ext) :
               lower_char(name[Len(name) - Len(ext) + i]) = ext[i]

\* C10: load of a directory with entries and no sidecar returns a Collection
\* titled "Untitled Collection" whose images are one bare image for each entry
\* whose name ends with an authorized extension, the name as it is written,
\* and leaves a sidecar that is not among the images.
C10_FirstLoadListsTheImageFiles ==
    [][(/\ outcome'.op = "load"
        /\ outcome'.name = CollDir
        /\ outcome'.status # "crashed"
        /\ meta = NoFile
        /\ files # {})
       => (/\ outcome'.status = "ok"
           /\ CURRENT_COLLECTION' # None
           /\ LET returned_images == CURRENT_COLLECTION'[1].collection
                  image_files == {name \in files : ends_with_image_extension(name)}
              IN  /\ CURRENT_COLLECTION'[1].title = "Untitled Collection"
                  /\ Len(returned_images) = Cardinality(image_files)
                  /\ {returned_images[i] : i \in 1..Len(returned_images)}
                         = {CollectionImage(name) : name \in image_files}
                  /\ META_FILENAME \notin filenames(returned_images)
           /\ meta' # NoFile
           /\ files' = files)]_vars

\* C10 witness: the first load of a directory holding b.JPG and n.txt has
\* returned the one image b.JPG.
C10_Witness ==
    /\ returned({"load"})
    /\ files = {B_JPG, N_TXT}
    /\ CURRENT_COLLECTION[1] = Collection(CollDir, DEFAULT_TITLE, <<CollectionImage(B_JPG)>>)
    /\ META_FILENAME \in listdir(files, meta)

\* the sidecar is no JSON text, or a JSON object without its title or its list
malformed(content) ==
    \/ content.kind \in {"empty", "truncated"}
    \/ /\ content.kind = "json"
       /\ ("title" \notin DOMAIN content \/ "collection" \notin DOMAIN content)

\* C11: load of a directory whose sidecar is malformed ends with an error, and
\* leaves the sidecar, the directory and the application's Collection as they
\* were.
C11_MalformedSidecarFailsAndIsKept ==
    [][(outcome'.op = "load" /\ outcome'.name = CollDir /\ malformed(meta))
       => (/\ outcome'.status \in {"JSONDecodeError", "KeyError"}
           /\ UNCHANGED <<files, meta, CURRENT_COLLECTION>>)]_vars

\* C11 witness: load has failed on a sidecar without its image list, in a
\* directory that holds an image the sidecar does not record.
C11_Witness ==
    /\ outcome = Outcome("load", "KeyError", CollDir)
    /\ meta = SidecarWithoutList
    /\ A_PNG \in files

\* C12: add_image of a file whose base name does not end with an authorized
\* extension, whatever the case of its letters, ends with ValueError and leaves
\* the list, the files of the directory and the sidecar as they were.
C12_UnauthorizedExtensionChangesNothing ==
    [][(outcome'.op = "add_image" /\ ~ends_with_image_extension(outcome'.name))
       => (/\ outcome'.status = "ValueError"
           /\ UNCHANGED <<files, meta, CURRENT_COLLECTION>>)]_vars

\* C12 witness: add_image has refused doc.pdf, a file that exists, on a
\* loaded Collection.
C12_Witness ==
    /\ outcome = Outcome("add_image", "ValueError", DOC_PDF)
    /\ CURRENT_COLLECTION # None
    /\ meta # NoFile

\* how add_image ends when shutil.copyfile raises
CopyFailures == {"SameFileError", "FileNotFoundError", "OSError"}

\* C13: an add_image whose copy fails ends with the copy's error and leaves the
\* list and the sidecar as they were; an add_image that changes the list or the
\* sidecar has copied its file into the directory first.
C13_AppendAndSaveOnlyAfterCopy ==
    [][outcome'.op = "add_image"
       => (/\ (outcome'.status \in CopyFailures
                  => UNCHANGED <<meta, CURRENT_COLLECTION>>)
           /\ (~UNCHANGED <<meta, CURRENT_COLLECTION>>
                  => (/\ outcome'.status \notin CopyFailures
                      /\ outcome'.name \in files')))]_vars

\* C13 witness: add_image of /coll/a.png, a file of the managed directory
\* itself, has ended with SameFileError on a loaded Collection.
C13_Witness ==
    /\ outcome = Outcome("add_image", "SameFileError", A_PNG)
    /\ CURRENT_COLLECTION # None
    /\ A_PNG \in files

\* the two names are the same characters, one by one
same_characters(x, y) ==
    /\ Len(x) = Len(y)
    /\ \A i \in 1..Len(x) : x[i] = y[i]

\* images to compare with: the pool, and images whose names differ from the
\* pool's by the case of their letters only
ComparedImages ==
    ImagePool \cup {CollectionImage(lower(B_JPG)),
                    [AnonymousB EXCEPT !.filename = lower(B_JPG)]}

\* C14: an image of the Collection equals another image exactly when their
\* filenames are the same characters, case included, whatever their other
\* fields hold.
C14_EqualityIsFilenameEquality ==
    CURRENT_COLLECTION # None =>
        \A i \in 1..Len(CURRENT_COLLECTION[1].collection) :
            \A b \in ComparedImages :
                LET a == CURRENT_COLLECTION[1].collection[i]
                IN  /\ image_eq(a, b) <=> same_characters(a.filename, b.filename)
                    /\ image_eq(b, a) <=> same_characters(a.filename, b.filename)

\* C14 witness: the Collection holds the described image of a.png, and the
\* described image of b.JPG, which differs from b.jpg by case only.
C14_Witness ==
    /\ CURRENT_COLLECTION # None
    /\ \E i, j \in 1..Len(CURRENT_COLLECTION[1].collection) :
           /\ CURRENT_COLLECTION[1].collection[i] = MonetA
           /\ CURRENT_COLLECTION[1].collection[j] = AnonymousB

\* the image to_reference was applied to
rendered_image == CURRENT_COLLECTION[1].collection[1]

\* the field is present: set, and not the empty string
present(field) == field # None /\ field[1] # ""

\* C15: for an image with title, year, technique, dimensions and
\* conservation_site set, to_reference returns the artist if present, otherwise
\* the production_site if present, then title, year, technique, dimensions,
\* each followed by ", ", then conservation_site; with neither artist nor
\* production_site the string starts with the title.
C15_ReferenceLeadsWithArtistOrProductionSite ==
    LET image == rendered_image
        lead == IF present(image.artist) THEN image.artist[1] \o ", "
                ELSE IF present(image.production_site)
                     THEN image.production_site[1] \o ", "
                     ELSE ""
    IN  (/\ outcome.op = "to_reference"
         /\ \A field \in {image.title, image.year, image.technique,
                          image.dimensions, image.conservation_site} :
                field # None)
        => (/\ outcome.status = "ok"
            /\ outcome.name = Some(lead \o image.title[1] \o ", "
                                        \o image.year[1] \o ", "
                                        \o image.technique[1] \o ", "
                                        \o image.dimensions[1] \o ", "
                                        \o image.conservation_site[1]))

\* C16: for an image in which any of title, year, technique, dimensions or
\* conservation_site is unset, to_reference ends with an error and returns no
\* string.
C16_UnsetFieldIsAnError ==
    LET image == rendered_image
    IN  (/\ outcome.op = "to_reference"
         /\ \E field \in {image.title, image.year, image.technique,
                          image.dimensions, image.conservation_site} :
                field = None)
        => outcome.status # "ok"

\* C17: a load that returns appends the newly discovered files in an order
\* fixed by their names, so it returns the same images in the same order for
\* every order in which os.listdir may enumerate the directory.
C17_LoadOrderIsTheSameForEveryEnumeration ==
    [][(outcome'.op = "load" /\ outcome'.status = "ok")
       => \A listing \in load_listings(files) :
              load_result(outcome'.name, files, meta, listing).collection
                  = CURRENT_COLLECTION']_vars

\* C18: the scan of load registers regular files only: no image of the
\* application's Collection has the name of a sub-directory, whatever
\* extension that name ends with.
C18_NoSubDirectoryIsListed ==
    (returned({"load"}) /\ CURRENT_COLLECTION # None)
        => \A i \in 1..Len(CURRENT_COLLECTION[1].collection) :
               isfile(CURRENT_COLLECTION[1].collection[i].filename)

\* C19: whenever the application holds a Collection, PROJECT_DIRECTORY is
\* that Collection's work_directory, after failed loads as after successful
\* ones.
C19_ProjectDirectoryIsTheCollectionsDirectory ==
    CURRENT_COLLECTION # None
        => PROJECT_DIRECTORY = CURRENT_COLLECTION[1].work_directory

\* C20: whenever the Collection screen is on display the application holds a
\* Collection, so no file drop it accepts and no toolbar save finds None.
C20_CollectionScreenHasACollection ==
    /\ current = "Collection" => CURRENT_COLLECTION # None
    /\ outcome.op = "_on_file_drop" => outcome.status # "AttributeError"
    /\ outcome.op \in {"save_coll", "to_home_screen"} => outcome.status = "ok"

\* C20 witness: on the Collection screen, a dropped a.png has been added to
\* the application's Collection.
C20_Witness ==
    /\ current = "Collection"
    /\ outcome = Outcome("_on_file_drop", "ok", A_PNG)
    /\ CURRENT_COLLECTION # None

\* C21: load_collection propagates no exception for any path: it ends either
\* with the failure of CollectionManager.load caught and the screen as it
\* was, or with the Collection loaded and the Collection screen on display,
\* also when the loaded Collection has no image.
C21_LoadCollectionPropagatesNoException ==
    [][outcome'.op = "load_collection"
       => (/\ outcome'.status \in {"ok", "caught"}
           /\ outcome'.status = "caught" => current' = current
           /\ outcome'.status = "ok" => current' = "Collection")]_vars

====
